---------------------------- MODULE Spec2Model ----------------------------
(***************************************************************************)
(* A model of mindex.py: the entry parser/sorter (readContent), the        *)
(* formatter (formatIndex), the layout helpers (getPaperSize, calcMargins, *)
(* calcColumns) and the render / tweak session (outputLaTeX,               *)
(* modificationLoop, __main__).                                            *)
(*                                                                         *)
(* Strings are sequences of character codes (9 = tab, 10 = newline,        *)
(* 32 = space, 35 = '#', 65.. = 'A'.., 97.. = 'a'..), so that split,       *)
(* strip, lower and the string order are computed as Python computes them. *)
(* Dimensions are fixed-point numbers in hundredths of an inch.            *)
(***************************************************************************)
EXTENDS Integers, Sequences, FiniteSets, TLC

VARIABLES
    pc,        \* position of the program
    lines,     \* the lines of the file read so far (history of "for entry in f")
    data,      \* readContent's data list; each element also records its line number
    errors,    \* readContent's errors list; each element also records its line number
    sortDict,  \* readContent's sortDict
    index,     \* the string returned by formatIndex
    params,    \* the params dictionary of __main__
    caller,    \* who called outputLaTeX: "main" or "loop"
    largs,     \* the arguments of a direct call of a layout helper
    lret       \* what that direct call returned

vars == <<pc, lines, data, errors, sortDict, index, params, caller, largs, lret>>

readVars    == <<lines, data, errors, sortDict, index>>
sessionVars == <<params, caller>>
layoutVars  == <<largs, lret>>

-----------------------------------------------------------------------------
(* Bounds of the model *)

MaxLines == 3    \* the longest file read
GridMax == 23    \* dimensions typed at a prompt: -0.5in, 0in, ..., GridMax * 0.5in

-----------------------------------------------------------------------------
(* Characters and strings *)

TAB == 9
NL == 10
HASH == 35

\* str.strip() with no argument strips whitespace
IsSpace(c) == c \in {9, 10, 11, 12, 13, 32}

RECURSIVE LStrip(_)
LStrip(s) == IF s # <<>> /\ IsSpace(Head(s)) THEN LStrip(Tail(s)) ELSE s

RECURSIVE RStrip(_)
RStrip(s) ==
    IF s # <<>> /\ IsSpace(s[Len(s)]) THEN RStrip(SubSeq(s, 1, Len(s) - 1)) ELSE s

Strip(s) == RStrip(LStrip(s))

\* str.lower() on ASCII text
LowerChar(c) == IF c \in 65..90 THEN c + 32 ELSE c

Lower(s) == [i \in 1..Len(s) |-> LowerChar(s[i])]

\* s < t in Python's order of strings (by code point, a proper prefix first)
RECURSIVE StrLess(_, _)
StrLess(s, t) ==
    IF t = <<>> THEN FALSE
    ELSE IF s = <<>> THEN TRUE
    ELSE IF Head(s) # Head(t) THEN Head(s) < Head(t)
    ELSE StrLess(Tail(s), Tail(t))

\* s.split(sep): the fields between the separators, never an empty list
RECURSIVE Split(_, _)
Split(s, sep) ==
    IF \E i \in 1..Len(s) : s[i] = sep
    THEN LET i == CHOOSE k \in 1..Len(s) :
                     s[k] = sep /\ \A j \in 1..(k - 1) : s[j] # sep
         IN  <<SubSeq(s, 1, i - 1)>> \o Split(SubSeq(s, i + 1, Len(s)), sep)
    ELSE <<s>>

-----------------------------------------------------------------------------
(* readContent *)

\* "if entry[0] == '#': continue" and "if entry == '\n': continue"
IsSkipped(line) == line[1] = HASH \/ line = <<NL>>

\* A plausible slip: any line with at least two fields is taken as an entry.
ClassifyLenient(entry) ==
    IF Len(entry) >= 3 /\ Strip(entry[3]) # <<>> THEN "sortkey"
    ELSE IF Len(entry) >= 2 THEN "normal"
    ELSE "invalid"

\* the if / elif / else over the split line
Classify(entry) ==
    IF Len(entry) = 3 /\ Strip(entry[3]) # <<>> THEN "sortkey"
    ELSE IF (Len(entry) = 3 /\ Strip(entry[3]) = <<>>) \/ Len(entry) = 2
         THEN "normal"
    ELSE "invalid"

\* One iteration of "for entry in f" on the n-th line, over the three locals.
LoopBody(st, line, n) ==
    IF IsSkipped(line) THEN st
    ELSE LET entry == Split(line, TAB)
             kind == Classify(entry)
         IN  IF kind = "sortkey"
             THEN [st EXCEPT
                     !.sortDict = (Strip(entry[3]) :> Strip(entry[1])) @@ st.sortDict,
                     !.data = Append(st.data,
                                [first |-> Strip(entry[3]),
                                 second |-> Strip(entry[2]), src |-> n])]
             ELSE IF kind = "normal"
             THEN [st EXCEPT
                     !.data = Append(st.data,
                                [first |-> Strip(entry[1]),
                                 second |-> Strip(entry[2]), src |-> n])]
             ELSE [st EXCEPT
                     !.errors = Append(st.errors, [fields |-> entry, src |-> n])]

EmptyLocals == [data |-> <<>>, errors |-> <<>>, sortDict |-> <<>>]

RECURSIVE ReadLoopFrom(_, _, _)
ReadLoopFrom(st, ls, n) ==
    IF n > Len(ls) THEN st ELSE ReadLoopFrom(LoopBody(st, ls[n], n), ls, n + 1)

\* the whole "for entry in f" loop over a file
ReadLoop(ls) == ReadLoopFrom(EmptyLocals, ls, 1)

\* A plausible slip: the keys are compared as written, not lowercased.
SortKeyCaseSensitive(x) == x.first

\* key=lambda x: x[0].lower()
SortKey(x) == Lower(x.first)

\* list.sort is stable: x goes before the first element with a greater key
RECURSIVE InsertSorted(_, _)
InsertSorted(x, s) ==
    IF s = <<>> THEN <<x>>
    ELSE IF StrLess(SortKey(x), SortKey(Head(s))) THEN <<x>> \o s
    ELSE <<Head(s)>> \o InsertSorted(x, Tail(s))

RECURSIVE SortByKey(_)
SortByKey(s) ==
    IF s = <<>> THEN <<>>
    ELSE InsertSorted(s[Len(s)], SortByKey(SubSeq(s, 1, Len(s) - 1)))

\* "for i in data[:]: if i[0] in sortDict: i[0] = sortDict[i[0]]"
Substitute(s, dict) ==
    [i \in 1..Len(s) |->
        IF s[i].first \in DOMAIN dict
        THEN [s[i] EXCEPT !.first = dict[s[i].first]]
        ELSE s[i]]

\* the data list readContent returns for a file
ReadContent(ls) ==
    LET st == ReadLoop(ls) IN Substitute(SortByKey(st.data), st.sortDict)

-----------------------------------------------------------------------------
(* formatIndex *)

\* "\item ~"
ItemMarker == <<92, 105, 116, 101, 109, 32, 126>>

\* ", "
CommaSpace == <<44, 32>>

\* A plausible slip: a newline after every directive.
DirectiveWithNewline(i) == ItemMarker \o i.first \o CommaSpace \o i.second \o <<NL>>

\* "\\item ~%s, %s" % (i[0], i[1])
Directive(i) == ItemMarker \o i.first \o CommaSpace \o i.second

RECURSIVE FormatIndex(_)
FormatIndex(d) ==
    IF d = <<>> THEN <<>>
    ELSE FormatIndex(SubSeq(d, 1, Len(d) - 1)) \o Directive(d[Len(d)])


-----------------------------------------------------------------------------
(* The files read: every line is one of FileLines, at most MaxLines lines. *)

FileLines == {
    <<97, 9, 49, 10>>,                 \* "a\t1\n"
    <<65, 9, 50, 10>>,                 \* "A\t2\n"
    <<66, 9, 49, 10>>,                 \* "B\t1\n"
    <<98, 9, 50, 10>>,                 \* "b\t2\n"
    <<120, 9, 49, 9, 98, 10>>,         \* "x\t1\tb\n"
    <<121, 9, 50, 9, 98, 10>>,         \* "y\t2\tb\n"
    <<120, 9, 50, 9, 65, 10>>,         \* "x\t2\tA\n"
    <<97, 9, 49, 9, 32, 10>>,          \* "a\t1\t \n"
    <<97, 9, 49, 9, 10>>,              \* "a\t1\t\n"
    <<9, 49, 10>>,                     \* "\t1\n"
    <<97, 9, 32, 10>>,                 \* "a\t \n"
    <<32, 97, 32, 9, 49, 10>>,         \* " a \t1\n"
    <<97, 10>>,                        \* "a\n"
    <<97, 9, 49, 9, 98, 9, 99, 10>>,   \* "a\t1\tb\tc\n"
    <<32, 10>>,                        \* " \n"
    <<35, 99, 10>>,                    \* "#c\n"
    <<35, 9, 49, 10>>,                 \* "#\t1\n"
    <<10>>,                            \* "\n"
    <<32, 35, 99, 10>>,                \* " #c\n"
    <<32, 35, 9, 49, 10>>,             \* " #\t1\n"
    <<98, 9, 50>>                      \* "b\t2" (a last line with no newline)
}

\* Only the last line of a file can lack its newline.
EndsWithNewline(line) == line[Len(line)] = NL

-----------------------------------------------------------------------------
(* Specification Spec: readContent line by line, then formatIndex *)

Init ==
    /\ pc = "reading"
    /\ lines = <<>>
    /\ data = <<>>
    /\ errors = <<>>
    /\ sortDict = <<>>
    /\ index = <<>>
    /\ params = <<>>
    /\ caller = "none"
    /\ largs = <<>>
    /\ lret = <<>>

\* one iteration of "for entry in f"
ReadLine ==
    /\ pc = "reading"
    /\ Len(lines) < MaxLines
    /\ lines # <<>> => EndsWithNewline(lines[Len(lines)])
    /\ \E line \in FileLines :
         LET st == LoopBody([data |-> data, errors |-> errors, sortDict |-> sortDict],
                            line, Len(lines) + 1)
         IN  /\ lines' = Append(lines, line)
             /\ data' = st.data
             /\ errors' = st.errors
             /\ sortDict' = st.sortDict
    /\ UNCHANGED <<pc, index, sessionVars, layoutVars>>

\* the end of the file: sort, substitute, report the errors, return data
EndOfFile ==
    /\ pc = "reading"
    /\ data' = Substitute(SortByKey(data), sortDict)
    /\ pc' = "sorted"
    /\ UNCHANGED <<lines, errors, sortDict, index, sessionVars, layoutVars>>

\* params['content'] = formatIndex(data)
FormatData ==
    /\ pc = "sorted"
    /\ index' = FormatIndex(data)
    /\ pc' = "formatted"
    /\ UNCHANGED <<lines, data, errors, sortDict, sessionVars, layoutVars>>

Next == ReadLine \/ EndOfFile \/ FormatData

Spec == Init /\ [][Next]_vars

-----------------------------------------------------------------------------
(* Layout: PAPER_DIMS, getPaperSize, calcMargins, calcColumns               *)
(* (hundredths of an inch; every dimension typed is a multiple of 0.5in,    *)
(* which binary floating point represents and halves exactly)               *)

PaperX == 850
PaperY == 1100
MinMargin == 100
ColumnWidth == 150

PAPER_DIMS(which) == IF which = "X" THEN PaperX ELSE PaperY

\* What is typed at a number prompt: text that float()/int() refuses, or a number.
NotANumber == [ok |-> FALSE, val |-> 0]

DimInputs == {[ok |-> TRUE, val |-> 50 * i] : i \in -1..GridMax} \cup {NotANumber}

\* one pass of getPaperSize's loop returns the number typed
Accepts(which, inp) ==
    /\ inp.ok
    /\ ~(inp.val > PAPER_DIMS(which))
    /\ ~(inp.val <= 0)
    /\ ~(PAPER_DIMS(which) - inp.val < MinMargin)

CalcMargins(p) == <<(PaperX - p.xdim) \div 2, (PaperY - p.ydim) \div 2>>

\* int(xdim / 1.5): int() truncates towards zero
CalcColumns(xdim) ==
    IF xdim >= 0 THEN xdim \div ColumnWidth ELSE -((-xdim) \div ColumnWidth)

-----------------------------------------------------------------------------
(* The session: __main__, outputLaTeX, modificationLoop *)

DEFAULT_CLOSING == "Automatically generated by Mindex 1.1.0 on \\today."
DEFAULT_GUTTER == "0.75em"
DEFAULT_INDENT == "0.75em"

\* the file named on the command line, and what it holds
FileName == "book.mindex"

SessionFile == <<
    <<66, 9, 49, 10>>,                 \* "B\t1\n"
    <<120, 9, 49, 9, 98, 10>>,         \* "x\t1\tb\n"
    <<97, 10>>,                        \* "a\n"
    <<97, 9, 49, 10>> >>               \* "a\t1\n"

\* what the user types at the text prompts
Titles == {"Index", "Names"}
Footers == {"The End"}
Widths == {"1em"}
YesNoAnswers == {<<>>, <<121>>, <<89>>, <<110>>}   \* "", "y", "Y", "n"
ColumnInputs == {[ok |-> TRUE, val |-> 2], NotANumber}

\* params[k] = v
Put(p, k, v) == [x \in DOMAIN p \cup {k} |-> IF x = k THEN v ELSE p[x]]

\* A plausible slip: the new dimension is stored and the margins are left as
\* they were.
ResizeStale(p, k, v) == Put(p, k, v)

\* options 1 and 2 of the menu, once getPaperSize has returned v:
\* params[k] = v, then params['margin_x'], params['margin_y'] = calcMargins(params)
Resize(p, k, v) ==
    LET q == Put(p, k, v)
        m == CalcMargins(q)
    IN  Put(Put(q, "margin_x", m[1]), "margin_y", m[2])

\* "yn.lower()[0] == 'y'" on the answer to "see the TeX output": an empty
\* answer has no character 0
TeXAnswer(yn) ==
    IF yn = <<>> THEN "IndexError"
    ELSE IF Lower(yn)[1] = 121 THEN "show"
    ELSE "skip"

\* "yn and yn.lower()[0] == 'y'"
WantsTweak(yn) == yn # <<>> /\ Lower(yn)[1] = 121

\* where outputLaTeX returns to
AfterOutput == IF caller = "main" THEN "askTweak" ELSE "menu"

InitSession ==
    /\ pc = "title"
    /\ lines = SessionFile
    /\ data = <<>>
    /\ errors = <<>>
    /\ sortDict = <<>>
    /\ index = <<>>
    /\ params = <<>>
    /\ caller = "none"
    /\ largs = <<>>
    /\ lret = <<>>

\* getBasicParams: the title
GetTitle ==
    /\ pc = "title"
    /\ \E t \in Titles : params' = Put(params, "title", t)
    /\ pc' = "askX"
    /\ UNCHANGED <<readVars, caller, layoutVars>>

\* getBasicParams: one pass of getPaperSize('X')
AskX ==
    /\ pc = "askX"
    /\ \E inp \in DimInputs :
         IF Accepts("X", inp)
         THEN params' = Put(params, "xdim", inp.val) /\ pc' = "askY"
         ELSE UNCHANGED <<params, pc>>
    /\ UNCHANGED <<readVars, caller, layoutVars>>

\* getBasicParams: one pass of getPaperSize('Y'), and the return
AskY ==
    /\ pc = "askY"
    /\ \E inp \in DimInputs :
         IF Accepts("Y", inp)
         THEN /\ params' = Put(Put(params, "ydim", inp.val), "fname", FileName)
              /\ pc' = "setup"
         ELSE UNCHANGED <<params, pc>>
    /\ UNCHANGED <<readVars, caller, layoutVars>>

\* __main__ from calcMargins to prepLaTeX, up to the first outputLaTeX
Setup ==
    /\ pc = "setup"
    /\ LET st == ReadLoop(lines)
           d == Substitute(SortByKey(st.data), st.sortDict)
           m == CalcMargins(params)
           p1 == Put(Put(params, "margin_x", m[1]), "margin_y", m[2])
           p2 == Put(p1, "cols", CalcColumns(params.xdim))
           p3 == Put(Put(Put(p2, "closing", DEFAULT_CLOSING),
                         "gutter", DEFAULT_GUTTER), "indent", DEFAULT_INDENT)
       IN  /\ data' = d
           /\ errors' = st.errors
           /\ sortDict' = st.sortDict
           /\ index' = FormatIndex(d)
           /\ params' = Put(p3, "content", FormatIndex(d))
    /\ caller' = "main"
    /\ pc' = "outputLaTeX"
    /\ UNCHANGED <<lines, layoutVars>>

\* outputLaTeX: pdflatex exits with 0, the viewer is opened
PdflatexSucceeds ==
    /\ pc = "outputLaTeX"
    /\ pc' = AfterOutput
    /\ UNCHANGED <<readVars, sessionVars, layoutVars>>

\* outputLaTeX: pdflatex exits non-zero (CalledProcessError)
PdflatexFails ==
    /\ pc = "outputLaTeX"
    /\ pc' = "askTeX"
    /\ UNCHANGED <<readVars, sessionVars, layoutVars>>

\* outputLaTeX: the answer to "Would you like to see the TeX output (y/n)?"
AnswerTeX ==
    /\ pc = "askTeX"
    /\ \E yn \in YesNoAnswers :
         pc' = IF TeXAnswer(yn) = "IndexError" THEN "crashed" ELSE AfterOutput
    /\ UNCHANGED <<readVars, sessionVars, layoutVars>>

\* __main__: "Would you like to tweak the output (y/n)?"
AskTweak ==
    /\ pc = "askTweak"
    /\ \E yn \in YesNoAnswers : pc' = IF WantsTweak(yn) THEN "menu" ELSE "done"
    /\ UNCHANGED <<readVars, sessionVars, layoutVars>>

\* modificationLoop: option 0, and the return to __main__
MenuQuit ==
    /\ pc = "menu"
    /\ pc' = "done"
    /\ UNCHANGED <<readVars, sessionVars, layoutVars>>

\* modificationLoop: options 1 and 2 call getPaperSize
MenuSize ==
    /\ pc = "menu"
    /\ \E num \in {"1", "2"} : pc' = IF num = "1" THEN "menuX" ELSE "menuY"
    /\ UNCHANGED <<readVars, sessionVars, layoutVars>>

\* option 1: one pass of getPaperSize('X'), then calcMargins and outputLaTeX
MenuX ==
    /\ pc = "menuX"
    /\ \E inp \in DimInputs :
         IF Accepts("X", inp)
         THEN /\ params' = Resize(params, "xdim", inp.val)
              /\ caller' = "loop"
              /\ pc' = "outputLaTeX"
         ELSE UNCHANGED <<params, caller, pc>>
    /\ UNCHANGED <<readVars, layoutVars>>

\* option 2: one pass of getPaperSize('Y'), then calcMargins and outputLaTeX
MenuY ==
    /\ pc = "menuY"
    /\ \E inp \in DimInputs :
         IF Accepts("Y", inp)
         THEN /\ params' = Resize(params, "ydim", inp.val)
              /\ caller' = "loop"
              /\ pc' = "outputLaTeX"
         ELSE UNCHANGED <<params, caller, pc>>
    /\ UNCHANGED <<readVars, layoutVars>>

\* option 3: the number of columns, kept when int() refuses the text
MenuColumns ==
    /\ pc = "menu"
    /\ \E ri \in ColumnInputs :
         params' = IF ri.ok THEN Put(params, "cols", ri.val) ELSE params
    /\ caller' = "loop"
    /\ pc' = "outputLaTeX"
    /\ UNCHANGED <<readVars, layoutVars>>

\* options 4 to 7: title, footer, gutter, indent
MenuText ==
    /\ pc = "menu"
    /\ \/ \E t \in Titles : params' = Put(params, "title", t)
       \/ \E t \in Footers : params' = Put(params, "closing", t)
       \/ \E t \in Widths : params' = Put(params, "gutter", t)
       \/ \E t \in Widths : params' = Put(params, "indent", t)
    /\ caller' = "loop"
    /\ pc' = "outputLaTeX"
    /\ UNCHANGED <<readVars, layoutVars>>

\* any other answer at the menu: nothing changes, LaTeX is run again
MenuOther ==
    /\ pc = "menu"
    /\ caller' = "loop"
    /\ pc' = "outputLaTeX"
    /\ UNCHANGED <<readVars, params, layoutVars>>

NextSession ==
    \/ GetTitle \/ AskX \/ AskY \/ Setup
    \/ PdflatexSucceeds \/ PdflatexFails \/ AnswerTeX \/ AskTweak
    \/ MenuQuit \/ MenuSize \/ MenuX \/ MenuY
    \/ MenuColumns \/ MenuText \/ MenuOther

SpecSession == InitSession /\ [][NextSession]_vars

-----------------------------------------------------------------------------
(* The layout helpers called directly, on any dimensions of the grid *)

GridDims == {50 * i : i \in -1..GridMax}

InitLayout ==
    /\ pc = "direct"
    /\ lines = <<>>
    /\ data = <<>>
    /\ errors = <<>>
    /\ sortDict = <<>>
    /\ index = <<>>
    /\ params = <<>>
    /\ caller = "none"
    /\ largs \in [xdim : GridDims, ydim : GridDims]
    /\ lret = <<>>

\* calcMargins(params)
CallCalcMargins ==
    /\ pc = "direct"
    /\ lret' = [status |-> "returned", value |-> CalcMargins(largs)]
    /\ pc' = "calcMargins"
    /\ UNCHANGED <<readVars, sessionVars, largs>>

\* calcColumns(xdim)
CallCalcColumns ==
    /\ pc = "direct"
    /\ lret' = [status |-> "returned", value |-> <<CalcColumns(largs.xdim)>>]
    /\ pc' = "calcColumns"
    /\ UNCHANGED <<readVars, sessionVars, largs>>

\* getPaperSize('X') with xdim typed at its prompt: returned or asked again
CallGetPaperSize ==
    /\ pc = "direct"
    /\ IF Accepts("X", [ok |-> TRUE, val |-> largs.xdim])
       THEN /\ lret' = [status |-> "returned", value |-> <<largs.xdim>>]
            /\ pc' = "getPaperSize"
       ELSE /\ lret' = [status |-> "asked again", value |-> <<>>]
            /\ pc' = "getPaperSize"
    /\ UNCHANGED <<readVars, sessionVars, largs>>

NextLayout == CallCalcMargins \/ CallCalcColumns \/ CallGetPaperSize

SpecLayout == InitLayout /\ [][NextLayout]_vars

-----------------------------------------------------------------------------
(* What the claims about readContent and formatIndex speak of *)

\* readContent has returned
Returned == pc \in {"sorted", "formatted"}

\* the [first field, page reference] pairs of a data list
Pairs(d) == [i \in 1..Len(d) |-> <<d[i].first, d[i].second>>]

\* the tab-separated fields of the n-th line read
Fields(n) == Split(lines[n], TAB)

\* the n-th line is a 3-field line with a non-empty trimmed sort key
HasExplicitKey(n) == Len(Fields(n)) = 3 /\ Strip(Fields(n)[3]) # <<>>

\* the display term of the n-th line: its trimmed field[0]
OwnTerm(n) == Strip(Fields(n)[1])

\* the effective sort key of the n-th line
EffKey(n) == IF HasExplicitKey(n) THEN Strip(Fields(n)[3]) ELSE OwnTerm(n)

\* the n-th line is not skipped and has neither 2 nor 3 fields
Malformed(n) == ~IsSkipped(lines[n]) /\ Len(Fields(n)) \notin {2, 3}

\* the n-th line is a comment after trimming, or a blank line
CommentOrBlank(n) ==
    \/ lines[n] = <<NL>>
    \/ Strip(lines[n]) # <<>> /\ Strip(lines[n])[1] = HASH

DataSrc == {data[i].src : i \in 1..Len(data)}
ErrorSrc == {errors[i].src : i \in 1..Len(errors)}

\* the emitted entries are in the order of their lowercased effective keys,
\* entries with equal lowercased keys in the order of their lines
OrderedByEffKey ==
    \A i, j \in 1..Len(data) :
        i < j =>
            /\ ~StrLess(Lower(EffKey(data[j].src)), Lower(EffKey(data[i].src)))
            /\ Lower(EffKey(data[i].src)) = Lower(EffKey(data[j].src))
                   => data[i].src < data[j].src

\* C1: every entry of a line with an explicit sort key is emitted at the
\* position its lowercased sort key dictates, and its first field is that
\* line's own trimmed display term.
SortKeyEntriesShowOwnTerm ==
    Returned =>
        /\ OrderedByEffKey
        /\ \A i \in 1..Len(data) :
               HasExplicitKey(data[i].src) => data[i].first = OwnTerm(data[i].src)

\* C2: every retained entry has a non-empty display term and a non-empty
\* page reference, and an explicit sort key, when used, is non-empty.
RetainedEntriesNonEmpty ==
    Returned =>
        \A i \in 1..Len(data) :
            /\ Strip(data[i].first) # <<>>
            /\ Strip(data[i].second) # <<>>
            /\ HasExplicitKey(data[i].src) => EffKey(data[i].src) # <<>>

\* C3: the returned sequence is ordered by the lowercased effective sort key
\* (the explicit key when given, else the display term), and entries whose
\* lowercased keys are equal keep the order of their lines.
SortedStableByLowerKey == Returned => OrderedByEffKey

\* C3 witness: a returned list that the sort reordered, holding an entry with
\* an explicit key, and two entries whose keys differ only in case.
SortedStableWitness ==
    /\ Returned
    /\ \E i, j \in 1..Len(data) : i < j /\ data[i].src > data[j].src
    /\ \E i \in 1..Len(data) : HasExplicitKey(data[i].src)
    /\ \E i, j \in 1..Len(data) :
           /\ i < j
           /\ EffKey(data[i].src) # EffKey(data[j].src)
           /\ Lower(EffKey(data[i].src)) = Lower(EffKey(data[j].src))

NotMalformed(line) == IsSkipped(line) \/ Len(Split(line, TAB)) \in {2, 3}

\* C4: a malformed line goes to the errors list (its split fields, in file
\* order) and yields no entry; every line that is neither skipped nor
\* malformed yields exactly one entry; and the entries returned are those
\* returned for the same file with the malformed lines taken out.
MalformedLinesIsolated ==
    Returned =>
        /\ ErrorSrc = {n \in 1..Len(lines) : Malformed(n)}
        /\ \A k \in 1..Len(errors) : errors[k].fields = Fields(errors[k].src)
        /\ \A k, m \in 1..Len(errors) : k < m => errors[k].src < errors[m].src
        /\ DataSrc = {n \in 1..Len(lines) : ~IsSkipped(lines[n]) /\ ~Malformed(n)}
        /\ Len(data) = Cardinality(DataSrc)
        /\ \A i \in 1..Len(data) : data[i].second = Strip(Fields(data[i].src)[2])
        /\ Len(errors) = Cardinality(ErrorSrc)
        /\ Len(data) + Len(errors)
             + Cardinality({n \in 1..Len(lines) : IsSkipped(lines[n])}) = Len(lines)
        /\ Pairs(data) = Pairs(ReadContent(SelectSeq(lines, NotMalformed)))

\* C4 witness: a malformed line between two valid lines, both of them parsed.
MalformedIsolatedWitness ==
    /\ Returned
    /\ Len(lines) = 3
    /\ Malformed(2)
    /\ Len(Fields(2)) = 4
    /\ DataSrc = {1, 3}
    /\ Len(errors) = 1

\* C5: a line that begins with '#' after trimming, and a blank line, yields
\* neither an entry nor an item of the errors list.
CommentsAndBlanksSkipped ==
    Returned =>
        \A n \in 1..Len(lines) :
            CommentOrBlank(n) => n \notin DataSrc /\ n \notin ErrorSrc

\* the length of the directive of one entry
DirLen(e) == Len(ItemMarker) + Len(e.first) + Len(CommaSpace) + Len(e.second)

RECURSIVE Offset(_, _)
\* where the k-th directive starts: after the k - 1 directives before it
Offset(d, k) == IF k = 1 THEN 0 ELSE Offset(d, k - 1) + DirLen(d[k - 1])

\* the places of the formatted string where an item marker starts
MarkerPlaces ==
    {p \in 1..Len(index) :
        /\ p + Len(ItemMarker) - 1 <= Len(index)
        /\ SubSeq(index, p, p + Len(ItemMarker) - 1) = ItemMarker}

\* C8: the formatted string is one directive per entry, in the order of the
\* entries, each the item marker, the display term, ", " and the page
\* reference, with nothing between directives and nothing after the last;
\* zero entries give the empty string.
FormatOneDirectivePerEntry ==
    pc = "formatted" =>
        /\ \A k \in 1..Len(data) :
               LET o == Offset(data, k) IN
               /\ o + DirLen(data[k]) <= Len(index)
               /\ SubSeq(index, o + 1, o + Len(ItemMarker)) = ItemMarker
               /\ SubSeq(index, o + Len(ItemMarker) + 1,
                         o + Len(ItemMarker) + Len(data[k].first)) = data[k].first
               /\ SubSeq(index, o + Len(ItemMarker) + Len(data[k].first) + 1,
                         o + Len(ItemMarker) + Len(data[k].first) + 2) = <<44, 32>>
               /\ SubSeq(index, o + DirLen(data[k]) - Len(data[k].second) + 1,
                         o + DirLen(data[k])) = data[k].second
        /\ Len(index) = Offset(data, Len(data) + 1)
        /\ Cardinality(MarkerPlaces) = Len(data)
        /\ data = <<>> => index = <<>>

\* C8 witness: three entries formatted, one of them with an explicit key.
FormatWitness ==
    /\ pc = "formatted"
    /\ Len(data) = 3
    /\ \E i \in 1..Len(data) : HasExplicitKey(data[i].src)
    /\ Len(index) > 0

\* The reference design: each entry carries its own sort key and display term.
RefEntry(line) ==
    LET f == Split(line, TAB)
        explicit == Len(f) = 3 /\ Strip(f[3]) # <<>>
    IN  [sortKey |-> IF explicit THEN Strip(f[3]) ELSE Strip(f[1]),
         displayTerm |-> Strip(f[1]),
         pageRef |-> Strip(f[2])]

RECURSIVE RefInsert(_, _)
RefInsert(x, s) ==
    IF s = <<>> THEN <<x>>
    ELSE IF StrLess(Lower(x.sortKey), Lower(Head(s).sortKey)) THEN <<x>> \o s
    ELSE <<Head(s)>> \o RefInsert(x, Tail(s))

RECURSIVE RefSort(_)
RefSort(s) ==
    IF s = <<>> THEN <<>>
    ELSE RefInsert(s[Len(s)], RefSort(SubSeq(s, 1, Len(s) - 1)))

IsEntryLine(line) == ~IsSkipped(line) /\ Len(Split(line, TAB)) \in {2, 3}

RefOutput(ls) ==
    LET kept == SelectSeq(ls, IsEntryLine)
        sorted == RefSort([i \in 1..Len(kept) |-> RefEntry(kept[i])])
    IN  [i \in 1..Len(sorted) |-> <<sorted[i].displayTerm, sorted[i].pageRef>>]

\* C9: the two-pass design (sort the keys, then rewrite through sortDict)
\* returns the same [displayTerm, pageRef] pairs as the reference design.
TwoPassEqualsReference == Returned => Pairs(data) = RefOutput(lines)

-----------------------------------------------------------------------------
(* What the claims about the layout and the session speak of *)

\* a dimension the layout contract allows
ValidDim(which, d) ==
    /\ d > 0
    /\ d <= PAPER_DIMS(which)
    /\ PAPER_DIMS(which) - d >= MinMargin

\* C6: a dimension is accepted only if it is positive, no larger than the
\* paper and leaves the minimum margin; every other value is rejected, also
\* when calcMargins or calcColumns is called directly; for accepted values
\* marginX = (8.5 - width) / 2.
LayoutRejectsInvalidDims ==
    /\ pc = "getPaperSize" =>
           (lret.status = "returned" <=> ValidDim("X", largs.xdim))
    /\ pc = "calcMargins" =>
           IF ValidDim("X", largs.xdim) /\ ValidDim("Y", largs.ydim)
           THEN /\ lret.status = "returned"
                /\ 2 * lret.value[1] = PaperX - largs.xdim
                /\ 2 * lret.value[2] = PaperY - largs.ydim
           ELSE lret.status = "rejected"
    /\ pc = "calcColumns" =>
           (~ValidDim("X", largs.xdim) => lret.status = "rejected")

\* C7: a non-zero exit of pdflatex never ends the process abnormally,
\* whatever is answered at the prompts that follow.
PdflatexFailureNotFatal == pc # "crashed"

=============================================================================
